---- MODULE Spec2Model ----
(***************************************************************************)
(* A model of pyasciiart's renderer core (src/ascii_renderer.py): the cell *)
(* buffer and its write operations, the intensity-to-glyph mapper, the     *)
(* frame loader, the output driver and the run() loop with its lifecycle.  *)
(*                                                                         *)
(* Python values are modelled as follows.  A glyph is a one-character      *)
(* string, a text or a list is a sequence, a cell is the pair              *)
(* <<glyph, color_code>>.  Python's 0-based indices are kept; PyGet does   *)
(* the indexing, negative indices included.  A call that can raise         *)
(* returns a record whose field exc names the exception ("none" when the   *)
(* call completed).  Wall-clock time is counted in ticks of                *)
(* 1/TicksPerSecond seconds.                                               *)
(***************************************************************************)
EXTENDS Integers, Sequences, FiniteSets, TLC

\* ------------------------------------------------------------------ bounds

\* The grid of the modelled renderer (the constructor's width and height).
Width == 3
Height == 2

\* The intensities handed to the mapper range over MinIntensity..MaxIntensity.
MaxBelow == 300
MaxIntensity == 560
MinIntensity == 0 - MaxBelow

\* The clock: ticks of time.perf_counter() in a second.  Every rate of the
\* model divides it, so that 1.0 / rate is a whole number of ticks.
TicksPerSecond == 60

\* run() starts no iteration after MaxTime ticks; where the application calls
\* it again, it makes MaxRuns calls.
MaxTime == 6
MaxRuns == 2

\* What a slow callback costs, and by how much a sleep can overrun, in ticks.
SlowCost == 3
MaxOversleep == 1

\* Significand width of a Python float (an IEEE-754 double).
MantissaBits == 53

\* Bits of a binary fraction generated before rounding: the leading zeros of
\* the smallest quotient (1/255 has seven), the significand and a guard bit.
FracLen == MantissaBits + 8

\* The sentinel color_code meaning "no color".
NoColor == -1

\* ------------------------------------------------------------------- state

VARIABLES
    \* the renderer object (AsciiRenderer.__init__)
    buffer,             \* self.buffer: row -> column -> <<glyph, color_code>>
    char_map,           \* self.char_map: the glyph ramp
    update_callback,    \* self.update_callback is set
    draw_callback,      \* self.draw_callback is set
    key_press_callback, \* self.key_press_callback is set
    running,            \* self.running
    target_fps,         \* self.target_fps
    game_speed,         \* self.game_speed
    \* the platform
    msvcrt,             \* the msvcrt module was imported (Windows)
    sinkOpen,           \* standard output still accepts writes
    now,                \* time.perf_counter(), in ticks
    out,                \* the writes of the most recent render(), in order
    \* the activation of run()
    pc,                 \* where run() is: "idle" when no call is active
    loc,                \* run()'s locals
    exc,                \* the exception in flight, "none" when there is none
    \* the most recent API call and what the loop has done, for the properties
    call,
    hist

rendererVars == <<buffer, char_map, update_callback, draw_callback,
                  key_press_callback, running, target_fps, game_speed>>
platformVars == <<msvcrt, sinkOpen, now, out>>
runVars == <<pc, loc, exc>>
vars == <<rendererVars, platformVars, runVars, call, hist>>

\* ------------------------------------------------- Python lists and floats

\* seq[i] of a Python list: 0-based, a negative index counts from the end,
\* anything outside -len..len-1 raises IndexError.
PyGet(seq, i) ==
    IF 0 <= i /\ i < Len(seq) THEN [exc |-> "none", val |-> seq[i + 1]]
    ELSE IF i < 0 /\ 0 - Len(seq) <= i
         THEN [exc |-> "none", val |-> seq[Len(seq) + i + 1]]
    ELSE [exc |-> "IndexError", val |-> ""]

\* Binary digits are written most significant first.  A natural below 2^30
\* as its digits without leading zeros, and as exactly w digits.
RECURSIVE ToBits(_)
ToBits(n) == IF n = 0 THEN << >> ELSE Append(ToBits(n \div 2), n % 2)

NatToBits(n, w) == [i \in 1..w |-> (n \div 2 ^ (w - i)) % 2]

\* The natural (below 2^30) that the digits b[lo..hi] write.
RECURSIVE BitsToNat(_, _, _)
BitsToNat(b, lo, hi) ==
    IF hi < lo THEN 0
    ELSE IF lo = hi THEN b[lo]
    ELSE LET mid == (lo + hi) \div 2
         IN BitsToNat(b, lo, mid) * 2 ^ (hi - mid) + BitsToNat(b, mid + 1, hi)

FromBits(b) == BitsToNat(b, 1, Len(b))

LeadingZeros(b) ==
    IF \A i \in DOMAIN b : b[i] = 0 THEN Len(b)
    ELSE (CHOOSE i \in DOMAIN b : b[i] = 1 /\ \A j \in 1..(i - 1) : b[j] = 0) - 1

StripZeros(b) == SubSeq(b, LeadingZeros(b) + 1, Len(b))

\* The first n binary digits of the fraction r/255 (0 <= r < 255).  The
\* remainder after i digits is (r * 2^i) mod 255, and 2^8 mod 255 = 1.
FracRem(r, i) == (r * 2 ^ (i % 8)) % 255

FracBits(r, n) == [i \in 1..n |-> (2 * FracRem(r, i - 1)) \div 255]

\* b + 1.
IncBits(b) ==
    IF \A i \in DOMAIN b : b[i] = 1 THEN <<1>> \o [i \in DOMAIN b |-> 0]
    ELSE LET p == CHOOSE i \in DOMAIN b :
                      b[i] = 0 /\ \A j \in (i + 1)..Len(b) : b[j] = 1
         IN [i \in DOMAIN b |-> IF i < p THEN b[i] ELSE IF i = p THEN 1 ELSE 0]

\* b (leading digit 1) rounded to its first p digits, to nearest, ties to
\* even; sticky says that non-zero digits follow those of b.  The result has
\* p digits, or p + 1 when the rounding carries out of the top.
RoundBits(b, p, sticky) ==
    IF Len(b) <= p THEN b
    ELSE LET kept == SubSeq(b, 1, p)
             guard == b[p + 1]
             rest == sticky \/ \E i \in (p + 2)..Len(b) : b[i] = 1
         IN IF guard = 1 /\ (rest \/ kept[p] = 1) THEN IncBits(kept) ELSE kept

\* b times the natural k < 2^10, sixteen digits at a time from the low end:
\* Limb(b, j) is the j-th group, LimbSum its product plus the carry into it.
Limb(b, j) ==
    LET hi == Len(b) - 16 * j
        lo == IF hi - 15 < 1 THEN 1 ELSE hi - 15
    IN BitsToNat(b, lo, hi)

RECURSIVE LimbSum(_, _, _)
LimbSum(b, k, j) ==
    Limb(b, j) * k + (IF j = 0 THEN 0 ELSE LimbSum(b, k, j - 1) \div 2 ^ 16)

MulBits(b, k) ==
    LET n == (Len(b) + 15) \div 16
        RECURSIVE Digits(_)
        Digits(j) ==
            IF j = n THEN ToBits(LimbSum(b, k, n - 1) \div 2 ^ 16)
            ELSE Digits(j + 1) \o NatToBits(LimbSum(b, k, j) % 2 ^ 16, 16)
    IN StripZeros(Digits(0))

\* The double nearest to n / 255, for a natural n > 0, as
\* [m |-> significand digits, s |-> scale]: the value is m * 2^(-s).
FloatDiv255(n) ==
    LET ib == ToBits(n \div 255)
        whole == ib \o FracBits(n % 255, FracLen)
        z == LeadingZeros(whole)
        sig == SubSeq(whole, z + 1, Len(whole))
    IN [m |-> RoundBits(sig, MantissaBits, n % 255 # 0),
        s |-> z + MantissaBits - Len(ib)]

\* The double nearest to x * k, for a double x and a natural k > 0.
FloatMul(x, k) ==
    LET p == MulBits(x.m, k)
        d == IF Len(p) > MantissaBits THEN Len(p) - MantissaBits ELSE 0
    IN [m |-> RoundBits(p, MantissaBits, FALSE), s |-> x.s - d]

\* int(x) of a non-negative double below 2^31: the digits left of the point.
FloatTrunc(x) ==
    LET keep == Len(x.m) - x.s
    IN IF keep <= 0 THEN 0 ELSE FromBits(SubSeq(x.m, 1, keep))

\* ------------------------------------------------------- intensity mapper

\* int((intensity / 255) * (len(self.char_map) - 1)): a true division and a
\* multiplication of doubles, then a truncation toward zero.
IntensityIndex(ramp, intensity) ==
    LET mag == IF intensity < 0 THEN 0 - intensity ELSE intensity
        k == Len(ramp) - 1
        idx == IF mag = 0 \/ k = 0 THEN 0
               ELSE FloatTrunc(FloatMul(FloatDiv255(mag), k))
    IN IF intensity < 0 THEN 0 - idx ELSE idx

\* AsciiRenderer._map_intensity_to_char: self.char_map[index].
map_intensity_to_char(ramp, intensity) ==
    PyGet(ramp, IntensityIndex(ramp, intensity))

\* The ramps the renderer is constructed with: the constructor's default,
\* utils.DETAILED_CHAR_MAP, a three-glyph ramp, a one-glyph ramp and the 52
\* letters.
DefaultRamp == <<" ", ".", ":", "-", "=", "+", "*", "#", "%", "@">>

DetailedRamp ==
    <<" ", ".", ",", ":", ";", "i", "l", "I", "L", "Y", "V", "X", "K", "W",
      "M", "N", "8", "B", "&", "%", "$", "#", "@">>

ThreeRamp == <<" ", ".", "#">>

OneRamp == <<"@">>

LetterRamp ==
    <<"a", "b", "c", "d", "e", "f", "g", "h", "i", "j", "k", "l", "m",
      "n", "o", "p", "q", "r", "s", "t", "u", "v", "w", "x", "y", "z",
      "A", "B", "C", "D", "E", "F", "G", "H", "I", "J", "K", "L", "M",
      "N", "O", "P", "Q", "R", "S", "T", "U", "V", "W", "X", "Y", "Z">>

Ramps == {DefaultRamp, DetailedRamp, ThreeRamp, OneRamp, LetterRamp}

\* ------------------------------------------------------------ cell buffer

Rows(h) == 0..(h - 1)
Cols(w) == 0..(w - 1)

\* AsciiRenderer.__init__: the buffer of a new renderer.
BlankBuffer(w, h) == [r \in Rows(h) |-> [c \in Cols(w) |-> <<" ", NoColor>>]]

\* self.buffer[y][x] = cell, as Python does it: an index below zero counts
\* from the end, one outside -len..len-1 raises IndexError.
SetCell(buf, w, h, x, y, cell) ==
    IF y < 0 - h \/ y >= h \/ x < 0 - w \/ x >= w
    THEN [buffer |-> buf, exc |-> "IndexError"]
    ELSE LET r == IF y < 0 THEN y + h ELSE y
             c == IF x < 0 THEN x + w ELSE x
         IN [buffer |-> [buf EXCEPT ![r][c] = cell], exc |-> "none"]

\* AsciiRenderer.clear_buffer.
clear_buffer(w, h, char, color_code) ==
    [r \in Rows(h) |-> [c \in Cols(w) |-> <<char, color_code>>]]

\* AsciiRenderer.draw_char.
draw_char(buf, w, h, x, y, char, color_code) ==
    IF 0 <= x /\ x < w /\ 0 <= y /\ y < h
    THEN SetCell(buf, w, h, x, y, <<char, color_code>>)
    ELSE [buffer |-> buf, exc |-> "none"]

\* draw_text with its test of x + i against 0 left out.
RECURSIVE DrawTextFromNoLower(_, _, _, _, _, _, _, _)
DrawTextFromNoLower(buf, w, h, x, y, text, color_code, i) ==
    IF i >= Len(text) THEN [buffer |-> buf, exc |-> "none"]
    ELSE LET step == IF x + i < w /\ 0 <= y /\ y < h
                     THEN SetCell(buf, w, h, x + i, y,
                                  <<text[i + 1], color_code>>)
                     ELSE [buffer |-> buf, exc |-> "none"]
         IN IF step.exc # "none" THEN step
            ELSE DrawTextFromNoLower(step.buffer, w, h, x, y, text,
                                     color_code, i + 1)

\* AsciiRenderer.draw_text: the loop over enumerate(text), from index i on
\* (i counts from 0, text[i + 1] is Python's text[i]).
RECURSIVE DrawTextFrom(_, _, _, _, _, _, _, _)
DrawTextFrom(buf, w, h, x, y, text, color_code, i) ==
    IF i >= Len(text) THEN [buffer |-> buf, exc |-> "none"]
    ELSE LET step == IF 0 <= x + i /\ x + i < w /\ 0 <= y /\ y < h
                     THEN SetCell(buf, w, h, x + i, y,
                                  <<text[i + 1], color_code>>)
                     ELSE [buffer |-> buf, exc |-> "none"]
         IN IF step.exc # "none" THEN step
            ELSE DrawTextFrom(step.buffer, w, h, x, y, text, color_code, i + 1)

draw_text(buf, w, h, x, y, text, color_code) ==
    DrawTextFrom(buf, w, h, x, y, text, color_code, 0)

\* ----------------------------------------------------------- frame loader

\* A cell of a frame source is [tuple, intensity, color]: tuple says that it
\* is a 2-tuple (intensity, color_code); otherwise it is the bare intensity.

\* AsciiRenderer.load_frame, the two nested loops from cell number k on, in
\* row-major order; it stops at the first exception with the cells written
\* so far in place.
RECURSIVE LoadCells(_, _, _, _, _, _)
LoadCells(buf, w, h, ramp, frame_data, k) ==
    IF k >= w * h THEN [buffer |-> buf, exc |-> "none"]
    ELSE LET r == k \div w
             c == k % w
             row == frame_data[r + 1]
         IN IF c >= Len(row) THEN [buffer |-> buf, exc |-> "IndexError"]
            ELSE LET cell == row[c + 1]
                     color_code == IF cell.tuple THEN cell.color ELSE NoColor
                     char == map_intensity_to_char(ramp, cell.intensity)
                 IN IF char.exc # "none"
                    THEN [buffer |-> buf, exc |-> char.exc]
                    ELSE LoadCells(
                             [buf EXCEPT ![r][c] = <<char.val, color_code>>],
                             w, h, ramp, frame_data, k + 1)

load_frame(buf, w, h, ramp, frame_data) ==
    IF Len(frame_data) # h THEN [buffer |-> buf, exc |-> "ValueError"]
    ELSE IF Len(frame_data[1]) # w THEN [buffer |-> buf, exc |-> "ValueError"]
    ELSE LoadCells(buf, w, h, ramp, frame_data, 0)

\* ---------------------------------------------------------- output driver

HomeClear == [t |-> "home+clear", ch |-> "", n |-> 0]
SetForeground(c) == [t |-> "fg", ch |-> "", n |-> c]
Glyph(ch) == [t |-> "glyph", ch |-> ch, n |-> 0]
Reset == [t |-> "reset", ch |-> "", n |-> 0]
Newline == [t |-> "newline", ch |-> "", n |-> 0]

\* A cell serialized with the color set but never reset.
CellStrNoReset(cell) ==
    IF cell[2] # NoColor
    THEN <<SetForeground(cell[2]), Glyph(cell[1])>>
    ELSE <<Glyph(cell[1])>>

\* What render() appends to line_str for one cell.
CellStr(cell) ==
    IF cell[2] # NoColor
    THEN <<SetForeground(cell[2]), Glyph(cell[1]), Reset>>
    ELSE <<Glyph(cell[1])>>

RECURSIVE LineStr(_, _, _)
LineStr(buf, w, r) ==
    IF w = 0 THEN << >> ELSE LineStr(buf, w - 1, r) \o CellStr(buf[r][w - 1])

\* "\n".join(output_lines) for the rows 0..h-1.
RECURSIVE JoinLines(_, _, _)
JoinLines(buf, w, h) ==
    IF h = 0 THEN << >>
    ELSE IF h = 1 THEN LineStr(buf, w, 0)
    ELSE JoinLines(buf, w, h - 1) \o <<Newline>> \o LineStr(buf, w, h - 1)

\* AsciiRenderer.render: the texts of its two print calls, in order; the
\* second print ends its text with a newline.
render(buf, w, h) ==
    << <<HomeClear>>, JoinLines(buf, w, h) \o <<Newline>> >>

\* ------------------------------------------- the calls made on a renderer

\* The arguments the modelled application passes.
Xs == (0 - 2)..(Width + 1)
Ys == (0 - 1)..Height
Texts == {<< >>, <<"A", "B">>, <<"H", "E", "L", "L", "O">>}
Colors == {NoColor, 196}

\* Frame sources: RowCounts rows; every row as wide as the grid, or one row
\* one cell shorter or longer; the cells filled by one of Fills.
Bare(v) == [tuple |-> FALSE, intensity |-> v, color |-> NoColor]
Pair(v, c) == [tuple |-> TRUE, intensity |-> v, color |-> c]

Fills == {"dark", "bright", "colored", "over"}

FillCell(fill, r, c) ==
    CASE fill = "dark" -> Bare(0)
      [] fill = "bright" -> Bare(255)
      [] fill = "colored" -> Pair(128, 196)
      [] OTHER -> IF r = Height - 1 /\ c = Width - 1 THEN Bare(300)
                  ELSE Bare(255)

RowCounts == (Height - 1)..(Height + 1)

Shapes ==
    UNION {{[r \in 1..n |-> Width]}
           \cup {[r \in 1..n |-> IF r = d THEN Width + e ELSE Width] :
                     d \in 1..n, e \in {0 - 1, 1}} : n \in RowCounts}

FrameOf(shape, fill) ==
    [r \in DOMAIN shape |-> [c \in 1..shape[r] |-> FillCell(fill, r - 1, c - 1)]]

Frames == {FrameOf(shape, fill) : shape \in Shapes, fill \in Fills}

NoCall == [op |-> "none", exc |-> "none"]

\* What every specification starts from: a renderer as the constructor
\* leaves it, on a platform whose output works.
Constructed ==
    /\ buffer = BlankBuffer(Width, Height)
    /\ running = FALSE
    /\ sinkOpen = TRUE
    /\ now = 0
    /\ out = << >>
    /\ loc = [none |-> 0]
    /\ exc = "none"
    /\ hist = [none |-> 0]

\* ------------------------------------- specification of the mapper alone

\* One call of _map_intensity_to_char on a renderer with one of Ramps.
InitMap ==
    /\ Constructed
    /\ char_map \in Ramps
    /\ update_callback = FALSE /\ draw_callback = FALSE
    /\ key_press_callback = FALSE
    /\ target_fps = 30 /\ game_speed = 10
    /\ msvcrt = FALSE
    /\ pc = "fresh"
    /\ call = NoCall

MapIntensity ==
    /\ pc = "fresh"
    /\ \E intensity \in MinIntensity..MaxIntensity :
          LET got == map_intensity_to_char(char_map, intensity)
          IN call' = [op |-> "map", intensity |-> intensity,
                      index |-> IntensityIndex(char_map, intensity),
                      ret |-> got.val, exc |-> got.exc]
    /\ pc' = "called"
    /\ UNCHANGED <<rendererVars, platformVars, loc, exc, hist>>

NextMap == MapIntensity

SpecMap == InitMap /\ [][NextMap]_vars

\* -------------------------------- specification of the buffer operations

\* An application that makes two calls on a new renderer: the first leaves
\* the buffer in some state, the second is the call the properties are about.
\* call records the latest call, with the buffer as it was before it (pre).
InitBuf ==
    /\ Constructed
    /\ char_map = DefaultRamp
    /\ update_callback = FALSE /\ draw_callback = FALSE
    /\ key_press_callback = FALSE
    /\ target_fps = 30 /\ game_speed = 10
    /\ msvcrt = FALSE
    /\ pc = "fresh"
    /\ call = NoCall

Called == pc' = IF pc = "fresh" THEN "prepared" ELSE "called"

BufFrame == <<char_map, update_callback, draw_callback, key_press_callback,
              running, target_fps, game_speed, platformVars, loc, exc, hist>>

ClearBuffer ==
    /\ pc \in {"fresh", "prepared"}
    /\ \E char \in {" ", "x"}, color_code \in Colors :
          /\ buffer' = clear_buffer(Width, Height, char, color_code)
          /\ call' = [op |-> "clear_buffer", char |-> char,
                      color |-> color_code, pre |-> buffer, exc |-> "none"]
    /\ Called
    /\ UNCHANGED BufFrame

DrawChar ==
    /\ pc \in {"fresh", "prepared"}
    /\ \E x \in Xs, y \in Ys, color_code \in Colors :
          LET got == draw_char(buffer, Width, Height, x, y, "#", color_code)
          IN /\ buffer' = got.buffer
             /\ call' = [op |-> "draw_char", x |-> x, y |-> y, char |-> "#",
                         color |-> color_code, pre |-> buffer,
                         exc |-> got.exc]
    /\ Called
    /\ UNCHANGED BufFrame

DrawText ==
    /\ pc \in {"fresh", "prepared"}
    /\ \E x \in Xs, y \in Ys, text \in Texts, color_code \in Colors :
          LET got == draw_text(buffer, Width, Height, x, y, text, color_code)
          IN /\ buffer' = got.buffer
             /\ call' = [op |-> "draw_text", x |-> x, y |-> y, text |-> text,
                         color |-> color_code, pre |-> buffer,
                         exc |-> got.exc]
    /\ Called
    /\ UNCHANGED BufFrame

LoadFrame ==
    /\ pc \in {"fresh", "prepared"}
    /\ \E frame_data \in Frames :
          LET got == load_frame(buffer, Width, Height, char_map, frame_data)
          IN /\ buffer' = got.buffer
             /\ call' = [op |-> "load_frame", frame |-> frame_data,
                         pre |-> buffer, exc |-> got.exc]
    /\ Called
    /\ UNCHANGED BufFrame

NextBuf == ClearBuffer \/ DrawChar \/ DrawText \/ LoadFrame

SpecBuf == InitBuf /\ [][NextBuf]_vars

\* ------------------------------------ specification of the output driver

\* The cells the rendered buffers are made of: blank, a glyph without color,
\* a glyph with a color.
RenderCells == {<<" ", NoColor>>, <<"x", NoColor>>, <<"#", 196>>}

\* An application that has drawn any buffer of RenderCells and calls
\* render() once.  out holds the text of every print call made, in order.
InitOut ==
    /\ Constructed
    /\ char_map = DefaultRamp
    /\ update_callback = FALSE /\ draw_callback = FALSE
    /\ key_press_callback = FALSE
    /\ target_fps = 30 /\ game_speed = 10
    /\ msvcrt = FALSE
    /\ pc = "fresh"
    /\ call = NoCall

\* The clear_buffer and draw_char calls by which the application draws
\* before it renders: they can leave any buffer of RenderCells.
Prepare ==
    /\ pc = "fresh"
    /\ buffer' \in [Rows(Height) -> [Cols(Width) -> RenderCells]]
    /\ call' = [op |-> "prepare", pre |-> buffer, exc |-> "none"]
    /\ pc' = "prepared"
    /\ UNCHANGED BufFrame

\* A call of render().
Render ==
    /\ pc = "prepared"
    /\ out' = out \o render(buffer, Width, Height)
    /\ call' = [op |-> "render", pre |-> buffer, exc |-> "none"]
    /\ pc' = "called"
    /\ UNCHANGED <<rendererVars, msvcrt, sinkOpen, now, loc, exc, hist>>

NextOut == Prepare \/ Render

SpecOut == InitOut /\ [][NextOut]_vars

\* ------------------------------------------------------------ the loop

\* The configurations of the loop: target_fps and game_speed as the
\* application sets them (renderer.target_fps, renderer.game_speed).
Rates == {0, 15, 30, 60}
Speeds == {0, 10, 30}

\* What a callback does besides taking time: nothing, call quit(), raise;
\* the draw callback can also paint the frame.
Effects == {"none", "quit", "raise"}
DrawEffects == Effects \cup {"paint"}
Costs == {0, SlowCost}

LoopPcs == {"top", "input", "logic", "draw", "render", "pace"}

NoLocals ==
    [last_time |-> 0, last_update_time |-> 0, frame_duration |-> 0,
     update_duration |-> 0, fixed_dt |-> 0, current_time |-> 0, frame_dt |-> 0]

\* What the properties need to know of the run() calls so far.  Of the latest
\* call: iter, the iterations begun; updates, the dt of every logic update;
\* stepUpdates and gateFrom, the updates of the current iteration and
\* last_update_time as its logic step found it; draws, renders; quitIter, the
\* iteration quit() was called in (0: not called); cleanup and cursorShown,
\* the show-cursor write was attempted, and made; exit and via, how and why
\* the call ended; start and stop, the clock when the loop began and when it
\* was left; quitAt and quitPc, the sampled time of the iteration quit() was
\* called in and the step that called it; fps; steps, what the current
\* iteration has called so far, in order ("key", "update", "draw", "render",
\* "sleep").  prev sums up the call before: its updates, the time from its
\* start to quitAt, its fps and via.
NoRun ==
    [iter |-> 0, updates |-> << >>, stepUpdates |-> 0, gateFrom |-> 0,
     draws |-> 0, renders |-> 0, quitIter |-> 0, cleanup |-> FALSE,
     cursorShown |-> FALSE, exit |-> "none", via |-> "none", start |-> 0,
     stop |-> 0, quitAt |-> 0, quitPc |-> "none", fps |-> 0, steps |-> << >>]

Summary(h) ==
    [updates |-> h.updates, ran |-> h.quitAt - h.start, fps |-> h.fps,
     via |-> h.via]

NoHist ==
    [runs |-> 0, entered |-> 0, run |-> NoRun, prev |-> Summary(NoRun)]

InitLoop ==
    /\ buffer = BlankBuffer(Width, Height)
    /\ char_map = DefaultRamp
    /\ update_callback \in BOOLEAN
    /\ draw_callback \in BOOLEAN
    /\ key_press_callback \in BOOLEAN
    /\ running = FALSE
    /\ target_fps \in Rates
    /\ game_speed \in Speeds
    /\ msvcrt \in BOOLEAN
    /\ sinkOpen = TRUE
    /\ now = 0
    /\ out = << >>
    /\ pc = "idle"
    /\ loc = NoLocals
    /\ exc = "none"
    /\ call = NoCall
    /\ hist = NoHist

\* The frame the modelled draw callback paints, as the example at the end of
\* ascii_renderer.py does: clear, then a colored character.
Paint(buf) ==
    draw_char(clear_buffer(Width, Height, " ", NoColor), Width, Height,
              Width - 1, 0, "#", 196).buffer

\* AsciiRenderer.run, from its entry to the while: the configuration check,
\* then the flag and the locals.  1.0 / 0 raises ZeroDivisionError before the
\* try statement is entered.
\* The configuration check with "or" for "and".
NoCallbacksEither == ~update_callback \/ ~draw_callback

\* run()'s configuration check: not update_callback and not draw_callback.
NoCallbacks == ~update_callback /\ ~draw_callback

DoRun ==
    /\ pc = "idle"
    /\ LET began == [NoRun EXCEPT !.start = now, !.stop = now,
                                  !.fps = target_fps]
           h == [hist EXCEPT !.runs = @ + 1, !.prev = Summary(hist.run)]
       IN IF NoCallbacks
          THEN /\ hist' = [h EXCEPT !.run =
                    [began EXCEPT !.exit = IF sinkOpen THEN "returned"
                                           ELSE "raised",
                                  !.via = "config"]]
               /\ UNCHANGED <<running, pc, loc>>
          ELSE /\ running' = TRUE
               /\ IF target_fps = 0
                  THEN /\ hist' = [h EXCEPT !.entered = @ + 1, !.run =
                            [began EXCEPT !.exit = "raised",
                                          !.via = "ZeroDivisionError"]]
                       /\ UNCHANGED <<pc, loc>>
                  ELSE /\ hist' = [h EXCEPT !.entered = @ + 1, !.run = began]
                       /\ pc' = "top"
                       /\ loc' =
                            LET update_duration ==
                                    IF game_speed > 0
                                    THEN TicksPerSecond \div game_speed ELSE 0
                            IN [last_time |-> now,
                                last_update_time |-> now,
                                frame_duration |-> TicksPerSecond \div target_fps,
                                update_duration |-> update_duration,
                                fixed_dt |-> update_duration,
                                current_time |-> now,
                                frame_dt |-> 0]
    /\ UNCHANGED <<buffer, char_map, update_callback, draw_callback,
                   key_press_callback, target_fps, game_speed, platformVars,
                   exc, call>>

\* The application's call of run() on a new renderer.
Run == hist.runs = 0 /\ DoRun

\* AsciiRenderer.quit, called by the application while no run() is active.
QuitIdle ==
    /\ pc = "idle"
    /\ running' = FALSE
    /\ UNCHANGED <<buffer, char_map, update_callback, draw_callback,
                   key_press_callback, target_fps, game_speed, platformVars,
                   runVars, call, hist>>

\* while self.running: and, when it holds, the sampling of the clock.
DoLoopTop ==
    /\ pc = "top"
    /\ IF running
       THEN /\ pc' = "input"
            /\ loc' = [loc EXCEPT !.current_time = now,
                                  !.frame_dt = now - loc.last_time,
                                  !.last_time = now]
            /\ hist' = [hist EXCEPT !.run.iter = @ + 1,
                                    !.run.stepUpdates = 0,
                                    !.run.gateFrom = loc.last_update_time,
                                    !.run.steps = << >>]
       ELSE /\ pc' = "finally"
            /\ hist' = [hist EXCEPT !.run.via = "quit", !.run.stop = now]
            /\ UNCHANGED loc
    /\ UNCHANGED <<rendererVars, platformVars, exc, call>>

LoopTop == (running => now <= MaxTime) /\ DoLoopTop

\* A callback whose quit() ends the loop at once, as an exception does.
CallbackPreemptive(effect, cost, then) ==
    /\ now' = now + cost
    /\ running' = IF effect = "quit" THEN FALSE ELSE running
    /\ pc' = IF effect \in {"raise", "quit"} THEN "finally" ELSE then
    /\ exc' = IF effect = "raise" THEN "Error" ELSE exc

\* A callback called by the loop: it takes cost ticks and then returns,
\* returns having called quit(), or raises.  then is the step after it.
Callback(effect, cost, then) ==
    /\ now' = now + cost
    /\ running' = IF effect = "quit" THEN FALSE ELSE running
    /\ pc' = IF effect = "raise" THEN "finally" ELSE then
    /\ exc' = IF effect = "raise" THEN "Error" ELSE exc

Leaving(h, effect, cost) ==
    [h EXCEPT !.run.quitIter = IF effect = "quit" THEN h.run.iter ELSE @,
              !.run.quitAt = IF effect = "quit" THEN loc.current_time ELSE @,
              !.run.quitPc = IF effect = "quit" THEN pc ELSE @,
              !.run.via = IF effect = "raise" THEN "error" ELSE @,
              !.run.stop = IF effect = "raise" THEN now + cost ELSE @]

\* The input step: msvcrt.kbhit(), getch() and the key callback.
DoPollInput(kbhit, effect, cost) ==
    /\ pc = "input"
    /\ IF msvcrt /\ kbhit /\ key_press_callback
       THEN /\ Callback(effect, cost, "logic")
            /\ hist' = [Leaving(hist, effect, cost) EXCEPT
                            !.run.steps = Append(@, "key")]
       ELSE /\ pc' = "logic"
            /\ UNCHANGED <<now, running, exc, hist>>
    /\ UNCHANGED <<buffer, char_map, update_callback, draw_callback,
                   key_press_callback, target_fps, game_speed, msvcrt,
                   sinkOpen, out, loc, call>>

PollInput ==
    \E kbhit \in BOOLEAN, effect \in Effects, cost \in Costs :
        DoPollInput(kbhit, effect, cost)

\* The condition with > for >=.
UpdateDueStrict ==
    /\ update_callback
    /\ loc.update_duration > 0
    /\ loc.current_time - loc.last_update_time > loc.update_duration

\* The condition under which run() calls the update callback.
UpdateDue ==
    /\ update_callback
    /\ loc.update_duration > 0
    /\ loc.current_time - loc.last_update_time >= loc.update_duration

\* The logic step: the update callback with fixed_dt when it is due, and
\* last_update_time set once the callback has returned.
DoLogicStep(effect, cost) ==
    /\ pc = "logic"
    /\ IF UpdateDue
       THEN /\ Callback(effect, cost, "draw")
            /\ hist' = [Leaving(hist, effect, cost) EXCEPT
                            !.run.updates = Append(@, loc.fixed_dt),
                            !.run.stepUpdates = @ + 1,
                            !.run.steps = Append(@, "update")]
            /\ loc' = IF effect = "raise" THEN loc
                      ELSE [loc EXCEPT !.last_update_time = loc.current_time]
       ELSE /\ pc' = "draw"
            /\ UNCHANGED <<now, running, exc, hist, loc>>
    /\ UNCHANGED <<buffer, char_map, update_callback, draw_callback,
                   key_press_callback, target_fps, game_speed, msvcrt,
                   sinkOpen, out, call>>

LogicStep ==
    \E effect \in Effects, cost \in Costs : DoLogicStep(effect, cost)

\* A draw step after which the loop goes on to the pacing, without render().
DoDrawStepSkipsRender(effect, cost) ==
    /\ pc = "draw"
    /\ IF draw_callback
       THEN /\ Callback(effect, cost, "pace")
            /\ hist' = [Leaving(hist, effect, cost) EXCEPT
                            !.run.draws = @ + 1,
                            !.run.steps = Append(@, "draw")]
            /\ buffer' = IF effect = "paint" THEN Paint(buffer)
                         ELSE buffer
       ELSE /\ pc' = "pace"
            /\ UNCHANGED <<now, running, exc, hist, buffer>>
    /\ UNCHANGED <<char_map, update_callback, draw_callback,
                   key_press_callback, target_fps, game_speed, msvcrt,
                   sinkOpen, out, loc, call>>

\* The draw step: the draw callback with the renderer as its screen.
DoDrawStep(effect, cost) ==
    /\ pc = "draw"
    /\ IF draw_callback
       THEN /\ Callback(effect, cost, "render")
            /\ hist' = [Leaving(hist, effect, cost) EXCEPT
                            !.run.draws = @ + 1,
                            !.run.steps = Append(@, "draw")]
            /\ buffer' = IF effect = "paint" THEN Paint(buffer)
                         ELSE buffer
       ELSE /\ pc' = "render"
            /\ UNCHANGED <<now, running, exc, hist, buffer>>
    /\ UNCHANGED <<char_map, update_callback, draw_callback,
                   key_press_callback, target_fps, game_speed, msvcrt,
                   sinkOpen, out, loc, call>>

DrawStep ==
    \E effect \in DrawEffects, cost \in Costs : DoDrawStep(effect, cost)

\* self.render(): its prints raise when the output no longer takes writes.
RenderStep ==
    /\ pc = "render"
    /\ IF sinkOpen
       THEN /\ out' = render(buffer, Width, Height)
            /\ pc' = "pace"
            /\ hist' = [hist EXCEPT !.run.renders = @ + 1,
                                    !.run.steps = Append(@, "render")]
            /\ UNCHANGED exc
       ELSE /\ exc' = "OSError"
            /\ pc' = "finally"
            /\ hist' = [hist EXCEPT !.run.via = "sink", !.run.stop = now]
            /\ UNCHANGED out
    /\ UNCHANGED <<rendererVars, msvcrt, sinkOpen, now, loc, call>>

\* The pacing step: time.sleep(sleep_time) when sleep_time > 0; the sleep
\* lasts at least sleep_time.
DoPace(oversleep) ==
    /\ pc = "pace"
    /\ LET sleep_time == loc.frame_duration - (now - loc.current_time)
       IN /\ now' = IF sleep_time > 0 THEN now + sleep_time + oversleep
                    ELSE now
          /\ hist' = IF sleep_time > 0
                     THEN [hist EXCEPT !.run.steps = Append(@, "sleep")]
                     ELSE hist
    /\ pc' = "top"
    /\ UNCHANGED <<rendererVars, msvcrt, sinkOpen, out, loc, exc, call>>

Pace == \E oversleep \in 0..MaxOversleep : DoPace(oversleep)

\* A KeyboardInterrupt raised while a step of the loop runs.
Interrupt ==
    /\ pc \in LoopPcs
    /\ exc' = "KeyboardInterrupt"
    /\ pc' = "except"
    /\ hist' = [hist EXCEPT !.run.via = "interrupt", !.run.stop = now]
    /\ UNCHANGED <<rendererVars, platformVars, loc, call>>

\* except KeyboardInterrupt: a print, then self.running = False.
HandleInterrupt ==
    /\ pc = "except"
    /\ IF sinkOpen
       THEN running' = FALSE /\ exc' = "none"
       ELSE running' = running /\ exc' = "OSError"
    /\ pc' = "finally"
    /\ UNCHANGED <<buffer, char_map, update_callback, draw_callback,
                   key_press_callback, target_fps, game_speed, platformVars,
                   loc, call, hist>>

\* The cleanup written after the try statement instead of in its finally
\* clause: an exception in flight passes it by.
FinallyAfterTry ==
    /\ pc = "finally"
    /\ hist' = [hist EXCEPT
                   !.run.cleanup = (exc = "none"),
                   !.run.cursorShown = sinkOpen /\ exc = "none",
                   !.run.exit = IF sinkOpen /\ exc = "none" THEN "returned"
                                ELSE "raised"]
    /\ exc' = "none"
    /\ pc' = "idle"
    /\ UNCHANGED <<rendererVars, platformVars, loc, call>>

\* finally: print the show-cursor sequence, print the exit line; then run()
\* returns, or the exception in flight, or the one a print raised, propagates.
Finally ==
    /\ pc = "finally"
    /\ hist' = [hist EXCEPT
                   !.run.cleanup = TRUE,
                   !.run.cursorShown = sinkOpen,
                   !.run.exit = IF sinkOpen /\ exc = "none" THEN "returned"
                                ELSE "raised"]
    /\ exc' = "none"
    /\ pc' = "idle"
    /\ UNCHANGED <<rendererVars, platformVars, loc, call>>

\* The output stops taking writes (the terminal is gone, the pipe is closed)
\* while run() is active; it does not come back.
SinkFails ==
    /\ pc \in LoopPcs \cup {"except", "finally"}
    /\ sinkOpen
    /\ sinkOpen' = FALSE
    /\ UNCHANGED <<rendererVars, msvcrt, now, out, runVars, call, hist>>

Next ==
    \/ Run \/ QuitIdle \/ LoopTop \/ PollInput \/ LogicStep \/ DrawStep
    \/ RenderStep \/ Pace \/ Interrupt \/ HandleInterrupt \/ Finally
    \/ SinkFails

Spec == InitLoop /\ [][Next]_vars

\* ------------------------------------------- runs at different render rates

\* An application that runs the loop, changes renderer.target_fps and runs it
\* again, MaxRuns times in all.  Both callbacks are set and cost no time, the
\* sleeps are exact, nothing fails, no key is pressed; the draw callback
\* calls quit() in the first iteration sampled DetDuration after the loop's
\* start.  Every frame duration of DetRates divides DetDuration.
DetRates == {15, 30, 60}
DetSpeeds == {10, 30}
DetDuration == TicksPerSecond \div 5

InitDet ==
    /\ buffer = BlankBuffer(Width, Height)
    /\ char_map = DefaultRamp
    /\ update_callback = TRUE
    /\ draw_callback = TRUE
    /\ key_press_callback = FALSE
    /\ running = FALSE
    /\ target_fps \in DetRates
    /\ game_speed \in DetSpeeds
    /\ msvcrt = FALSE
    /\ sinkOpen = TRUE
    /\ now = 0
    /\ out = << >>
    /\ pc = "idle"
    /\ loc = NoLocals
    /\ exc = "none"
    /\ call = NoCall
    /\ hist = NoHist

DetRun == hist.runs < MaxRuns /\ DoRun

\* renderer.target_fps = ..., between two calls of run().
SetTargetFps ==
    /\ pc = "idle"
    /\ hist.runs > 0
    /\ \E fps \in DetRates \ {target_fps} : target_fps' = fps
    /\ UNCHANGED <<buffer, char_map, update_callback, draw_callback,
                   key_press_callback, running, game_speed, platformVars,
                   runVars, call, hist>>

DetPollInput == DoPollInput(FALSE, "none", 0)

DetLogicStep == DoLogicStep("none", 0)

DetDrawStep ==
    DoDrawStep(IF loc.current_time - hist.run.start >= DetDuration
               THEN "quit" ELSE "none", 0)

DetPace == DoPace(0)

NextDet ==
    \/ DetRun \/ SetTargetFps \/ QuitIdle \/ DoLoopTop \/ DetPollInput
    \/ DetLogicStep \/ DetDrawStep \/ RenderStep \/ DetPace \/ Finally

SpecDet == InitDet /\ [][NextDet]_vars

\* ================================================================= claims

InGrid(x, y) == 0 <= x /\ x < Width /\ 0 <= y /\ y < Height

\* The buffer that a clipped write of text at (x, y) must leave, given the
\* buffer pre before it: the cells (x + i, y) take (text[i], color), every
\* other cell keeps its content.
ClippedWrite(pre, x, y, text, color_code) ==
    [r \in Rows(Height) |-> [c \in Cols(Width) |->
        IF r = y /\ x <= c /\ c < x + Len(text)
        THEN <<text[c - x + 1], color_code>>
        ELSE pre[r][c]]]

Hello == <<"H", "E", "L", "L", "O">>

\* C1: a load_frame call that fails, for whatever reason, leaves the buffer
\* as it was before the call.
C1_FailedLoadIsNoOp ==
    (call.op = "load_frame" /\ call.exc # "none") => buffer = call.pre

\* C2: a load_frame call whose source has a row count other than height, or
\* any row whose column count is not width, fails with the dimension
\* mismatch error (ValueError).
C2_MismatchRejected ==
    (/\ call.op = "load_frame"
     /\ \/ Len(call.frame) # Height
        \/ \E r \in DOMAIN call.frame : Len(call.frame[r]) # Width)
    => call.exc = "ValueError"

\* C8: draw_text, for any x, y (negative ones too), text and color, does not
\* raise and changes exactly the cells (x + i, y) inside the grid to
\* (text[i], color); draw_char does what draw_text does with a one-character
\* text, so that an out-of-bounds (x, y) changes nothing; and "HELLO" written
\* at x = width - 2 of an 8-wide grid leaves "HE" in the last two columns.
C8_BoundsClipping ==
    /\ call.op = "draw_text" =>
          /\ call.exc = "none"
          /\ buffer = ClippedWrite(call.pre, call.x, call.y, call.text,
                                   call.color)
    /\ call.op = "draw_char" =>
          /\ call.exc = "none"
          /\ buffer = ClippedWrite(call.pre, call.x, call.y, <<call.char>>,
                                   call.color)
          /\ ~InGrid(call.x, call.y) => buffer = call.pre
    /\ LET got == draw_text(BlankBuffer(8, 1), 8, 1, 8 - 2, 0, Hello, NoColor)
       IN /\ got.exc = "none"
          /\ got.buffer =
                [r \in {0} |-> [c \in 0..7 |->
                    IF c = 6 THEN <<"H", NoColor>>
                    ELSE IF c = 7 THEN <<"E", NoColor>>
                    ELSE <<" ", NoColor>>]]

\* C8's case: "HELLO" written across the right edge of a buffer that an
\* earlier call filled, so that it is clipped to "HE" and the cells left of
\* it keep the fill.
C8_Witness ==
    /\ pc = "called"
    /\ call.op = "draw_text"
    /\ call.text = Hello /\ call.x = Width - 2 /\ call.y = 0
    /\ call.color = 196
    /\ call.pre = clear_buffer(Width, Height, "x", NoColor)
    /\ buffer[0][Width - 1] = <<"E", 196>>
    /\ buffer[0][0] = <<"x", NoColor>>

\* C9: for every ramp and every intensity v in 0..255 the mapper returns
\* ramp[floor(v * (L - 1) / 255)], L the ramp's length.
C9_MapsToFloorIndex ==
    (call.op = "map" /\ 0 <= call.intensity /\ call.intensity <= 255) =>
        /\ call.exc = "none"
        /\ call.index = (call.intensity * (Len(char_map) - 1)) \div 255
        /\ call.ret = char_map[call.index + 1]

\* C10: for every intensity below 0 or above 255 the mapper does not fail,
\* its index lies in 0..L-1, and it returns ramp[0] for a negative intensity
\* and the last glyph for one above 255.
C10_MapperClamps ==
    (call.op = "map" /\ (call.intensity < 0 \/ call.intensity > 255)) =>
        /\ call.exc = "none"
        /\ call.index \in 0..(Len(char_map) - 1)
        /\ call.ret = IF call.intensity < 0 THEN char_map[1]
                      ELSE char_map[Len(char_map)]

\* C3: two runs with the same logic rate and the same wall-clock duration that
\* differ only in the render rate call the logic update the same number of
\* times with the same dt values.
C3_SameUpdatesAtAnyRenderRate ==
    (/\ pc = "idle"
     /\ hist.runs >= 2
     /\ hist.run.exit = "returned" /\ hist.run.via = "quit"
     /\ hist.prev.via = "quit"
     /\ hist.prev.fps # hist.run.fps
     /\ hist.prev.ran = hist.run.quitAt - hist.run.start)
    => hist.run.updates = hist.prev.updates

LoopExits == {"quit", "interrupt", "error", "sink"}

\* The run() call has ended after its loop was entered and then left.
LoopLeft == pc = "idle" /\ hist.run.via \in LoopExits

\* C4: once the loop is running, the show-cursor sequence is emitted on every
\* exit path (quit(), an interrupt, an exception of a callback, a failed
\* output write) before run() returns or propagates.
C4_CursorShownOnEveryExit == LoopLeft => hist.run.cursorShown

\* C4, amended: on every such exit path the show-cursor write is attempted
\* before run() returns or propagates, and the sequence is emitted exactly
\* when the output still takes writes.
C4_CleanupAttemptedOnEveryExit ==
    /\ LoopLeft =>
          /\ hist.run.exit # "none"
          /\ hist.run.cleanup
          /\ hist.run.cursorShown <=> sinkOpen
    /\ (pc \in LoopPcs \cup {"except", "finally"}) => ~hist.run.cleanup

\* C4's case: a callback raised, the sequence was written, and the exception
\* went on to the caller.
C4_Witness ==
    /\ LoopLeft
    /\ hist.run.via = "error"
    /\ hist.run.exit = "raised"
    /\ hist.run.cursorShown

\* C5: after quit() is called in iteration k by a callback, the rest of
\* iteration k runs (draw, render, pacing), the loop is left at the top of
\* the loop, and no step of an iteration k + 1 runs.
C5_QuitIsCooperative ==
    hist.run.quitIter > 0 =>
        /\ hist.run.iter = hist.run.quitIter
        /\ (pc \in {"finally", "idle"} /\ hist.run.via \notin LoopExits \ {"quit"})
              => /\ hist.run.via = "quit"
                 /\ hist.run.renders = hist.run.quitIter
                 /\ draw_callback => hist.run.draws = hist.run.quitIter
        /\ (pc \in LoopPcs \ {"top"}) => hist.run.quitPc \in {"input", "logic", "draw"}
        /\ pc = "top" => ~running

\* C5's case: the key callback called quit() in a later iteration, that
\* iteration was still drawn and rendered, and the loop ended at its top.
C5_Witness ==
    /\ pc = "idle"
    /\ hist.run.via = "quit"
    /\ hist.run.quitPc = "input"
    /\ hist.run.quitIter >= 2
    /\ hist.run.draws = hist.run.quitIter
    /\ hist.run.renders = hist.run.quitIter

\* C6: run() with neither callback set never sets the running flag, calls no
\* callback, renders nothing and returns normally; with at least one callback
\* set, run() sets the flag.
C6_ConfigurationError ==
    /\ (~update_callback /\ ~draw_callback) =>
          /\ ~running
          /\ pc = "idle"
          /\ hist.entered = 0
          /\ hist.run.iter = 0 /\ hist.run.updates = << >>
          /\ hist.run.draws = 0 /\ hist.run.renders = 0
          /\ out = << >> /\ buffer = BlankBuffer(Width, Height)
          /\ hist.runs > 0 => hist.run.exit = "returned"
    /\ (update_callback \/ draw_callback) =>
          /\ hist.entered = hist.runs
          /\ (pc = "top" /\ hist.run.iter = 0) => running

\* C6's case: run() was called without callbacks and has returned.
C6_Witness ==
    /\ ~update_callback /\ ~draw_callback
    /\ hist.runs = 1
    /\ hist.run.via = "config"
    /\ hist.run.exit = "returned"

\* The logic step of the current iteration is over.
LogicStepDone == pc \in {"draw", "render", "pace"}

CellText(cell) ==
    IF cell[2] = NoColor THEN <<Glyph(cell[1])>>
    ELSE <<SetForeground(cell[2]), Glyph(cell[1]), Reset>>

\* The cells of row r from column c on, left to right.
RECURSIVE CellsFrom(_, _, _)
CellsFrom(buf, r, c) ==
    IF c >= Width THEN << >>
    ELSE CellText(buf[r][c]) \o CellsFrom(buf, r, c + 1)

\* The rows from row r on, top to bottom, a newline between two rows.
RECURSIVE RowsFrom(_, _)
RowsFrom(buf, r) ==
    IF r >= Height - 1 THEN CellsFrom(buf, r, 0)
    ELSE CellsFrom(buf, r, 0) \o <<Newline>> \o RowsFrom(buf, r + 1)

\* The texts of the output operations ops, put end to end.
RECURSIVE Emitted(_)
Emitted(ops) ==
    IF ops = << >> THEN << >> ELSE Head(ops) \o Emitted(Tail(ops))

\* C11: render() emits the home+clear sequence and then the rows, top to
\* bottom and joined by newlines, each row its cells left to right (glyph
\* alone, or set-foreground, glyph, reset); it leaves the buffer unchanged
\* and writes the whole frame in one output operation.
C11_RenderSerialization ==
    call.op = "render" =>
        /\ Emitted(out) = <<HomeClear>> \o RowsFrom(call.pre, 0)
        /\ Len(out) = 1
        /\ buffer = call.pre

\* C11, amended: render() makes two output operations: the first writes the
\* home+clear sequence, the second writes the rows joined by newlines and
\* one newline after the last row; the buffer is left unchanged.
C11_RenderWritesClearThenFrame ==
    call.op = "render" =>
        /\ Len(out) = 2
        /\ out[1] = <<HomeClear>>
        /\ out[2] = RowsFrom(call.pre, 0) \o <<Newline>>
        /\ buffer = call.pre

\* C11's case: a rendered buffer with a colored cell in its first row and an
\* uncolored glyph at the end of its last row.
C11_Witness ==
    /\ pc = "called"
    /\ call.op = "render"
    /\ call.pre[0][0] = <<"#", 196>>
    /\ call.pre[0][1] = <<" ", NoColor>>
    /\ call.pre[Height - 1][Width - 1] = <<"x", NoColor>>
    /\ SubSeq(out[2], 1, 4) =
          <<SetForeground(196), Glyph("#"), Reset, Glyph(" ")>>
    /\ SubSeq(out[2], Len(out[2]) - 1, Len(out[2])) = <<Glyph("x"), Newline>>

\* C12: whichever way the loop stops iterating (quit(), an interrupt, a
\* failed output write, an exception of a callback), the running flag is
\* false once run() has returned or propagated.
C12_StoppedAfterLeaving == LoopLeft => ~running

\* C13: once the loop has run and stopped, a later run() call starts no
\* iteration; and as long as run() has not entered the loop (quit() calls
\* while idle included), the loop is not running.
C13_StoppedIsTerminal ==
    /\ (hist.runs >= 2 /\ hist.prev.via \in LoopExits) =>
          /\ pc = "idle"
          /\ hist.run.iter = 0
    /\ hist.entered = 0 => (pc = "idle" /\ ~running)

\* The place of a step in an iteration.
StepRank(step) ==
    CASE step = "key" -> 1
      [] step = "update" -> 2
      [] step = "draw" -> 3
      [] step = "render" -> 4
      [] OTHER -> 5

\* The sequence steps holds step.
Did(steps, step) == \E i \in DOMAIN steps : steps[i] = step

\* C14: what an iteration calls, it calls in the order key handler, logic
\* update, draw callback, render, pacing sleep, each at most once; an
\* iteration that reaches its pacing has called the draw callback (when one
\* is set) and render exactly once each, render after the draw; and no
\* iteration begins before the render of the one before it is done.
C14_IterationOrder ==
    LET steps == hist.run.steps
    IN /\ \A i, j \in DOMAIN steps :
              i < j => StepRank(steps[i]) < StepRank(steps[j])
       /\ (pc \in {"input", "logic", "draw"}) =>
              /\ hist.run.renders = hist.run.iter - 1
              /\ ~Did(steps, "render") /\ ~Did(steps, "draw")
              /\ draw_callback => hist.run.draws = hist.run.iter - 1
       /\ pc \in {"input", "logic"} => ~Did(steps, "update")
       /\ pc = "input" => steps = << >>
       /\ pc = "render" =>
              /\ hist.run.renders = hist.run.iter - 1
              /\ ~Did(steps, "render")
              /\ draw_callback =>
                    (Did(steps, "draw") /\ hist.run.draws = hist.run.iter)
       /\ (pc = "pace" \/ (pc = "top" /\ hist.run.iter > 0)) =>
              /\ Did(steps, "render")
              /\ hist.run.renders = hist.run.iter
              /\ draw_callback <=> Did(steps, "draw")
              /\ draw_callback => hist.run.draws = hist.run.iter
       /\ ~draw_callback => hist.run.draws = 0
       /\ Did(steps, "update") <=> hist.run.stepUpdates = 1

\* C14's case: an iteration after the first in which a key was handled, the
\* update was due, the frame was drawn and rendered and the loop slept.
C14_Witness ==
    /\ pc = "top"
    /\ running
    /\ hist.run.iter >= 2
    /\ hist.run.steps = <<"key", "update", "draw", "render", "sleep">>

====
